---- MODULE Spec2Model ----
(***************************************************************************)
(* Study Buddy matchmaking and session-signalling server (server.js, the   *)
(* file kept as src/unnamed/part_000): wait queue, findMatch, sessions in  *)
(* the shared store, the connection registry and the push-channel          *)
(* handlers, on both store backends (Redis list / in-memory array).        *)
(***************************************************************************)
EXTENDS Integers, Sequences, FiniteSets, TLC

(* ------------------------------ bounds -------------------------------- *)
MaxQueue == 2
MaxSessions == 1
MaxOps == 2
MaxInitQueue == 3
MaxTimeouts == 2
MaxTime == 4

(* ----------------------------- universes ------------------------------ *)
None == "none"
\* clientIds in the order uuidv4 hands them out: none is used twice
ClientIds == <<"c1", "c2", "c3">>
Conns == { ClientIds[i] : i \in DOMAIN ClientIds }
UserIds == {"u1", "u2", "u3"}
Tags == {"CS", "cs", "Math", "math", "Bio"}

\* String.prototype.toLowerCase on the tags of the model
Lower(tag) ==
  CASE tag = "CS" -> "cs"
    [] tag = "cs" -> "cs"
    [] tag = "Math" -> "math"
    [] tag = "math" -> "math"
    [] tag = "Bio" -> "bio"

\* tag lists a client may send with join_queue
TagLists == { <<"CS", "Math">>, <<"cs">>, <<"math">>, <<"math", "CS">>, <<"Bio">> }
\* the users of the server runs: u2 and u3 share no tag, u1 shares one with each
UserPool == { [id |-> "u1", tags |-> <<"CS", "Math">>],
              [id |-> "u2", tags |-> <<"cs">>],
              [id |-> "u3", tags |-> <<"math">>] }

\* chat contents: clean text, a profane word, a phone number
Contents == {"hello", "damn", "call 555-123-4567"}

\* bad-words Filter.clean: a listed word is replaced by asterisks
Clean(content) == IF content = "damn" THEN "****" ELSE content

\* personalInfoPatterns: the phone number pattern matches
MatchesPersonalInfo(content) == content = "call 555-123-4567"

moderateContent(content) ==
  [content |-> Clean(content),
   flagged |-> MatchesPersonalInfo(content) \/ Clean(content) # content,
   original |-> content]

(* ------------------------------- state -------------------------------- *)
VARIABLES
  useRedis,      \* backend selected once at startup
  queue,         \* memoryStore.queue / the Redis list matchingQueue (index 1 = head)
  sessions,      \* store keys session:<id>
  nextSession,   \* number of session ids handed out so far (uuidv4 is fresh)
  blockedPairs,  \* memoryStore.blockedPairs / keys blocked:<a>:<b>
  nextClient,    \* number of clientIds handed out so far
  order,         \* insertion order of the clients Map
  clients,       \* clients Map: clientId -> {userId, sessionId}
  pend,          \* handlers suspended at an await on the Redis backend
  nOps,          \* chat and video messages accepted so far (capped by MaxOps)
  call,          \* a call of findMatch: argument, queue before, result
  timeouts,      \* pending no-match setTimeout callbacks of each clientId
  joinRequests,  \* join_queue messages received from the origin in the window
  apiHits,       \* hit count of the '/api/' limiter for the origin
  reportHits,    \* hit count of the '/api/report' limiter for the origin
  reports,       \* memoryStore.reports / the Redis list reports
  now,           \* the clock, in ticks
  sessionTimers, \* pending setTimeout deletions of session keys (memory)
  sessionExpiry, \* expiry time of each session key (Redis setEx)
  lastWrite,     \* time of the most recent setInStore of each session key
  blockTimers,   \* pending setTimeout deletions of blocked pairs (memory)
  blockExpiry,   \* expiry time of each blocked:<a>:<b> key (Redis setEx)
  lastBlock,     \* time of the most recent blockUser call for each pair
  tagCall,       \* a call of getSharedTags: arguments and results
  loop,          \* a call of findMatch in progress: its locals between awaits
  pushed,        \* the entries still queued, in the order they were pushed
  lastPop,       \* the most recent getFromQueue: what it returned
  hook,          \* useWebSocketMatching state of each connection's client
  lsQueue,       \* localStorage study-buddy-matching-queue of the polling transport
  http           \* useHTTPMatching state of each tab

\* what the timers, the clock and the rate limiters keep
timeoutVars == <<timeouts>>
rateVars == <<joinRequests, apiHits, reportHits, reports>>
ttlVars == <<now, sessionTimers, sessionExpiry, lastWrite>>
blockTtlVars == <<blockTimers, blockExpiry, lastBlock>>
procVars == <<tagCall, loop, pushed, lastPop, hook>>
pollVars == <<lsQueue, http>>
auxVars == <<timeoutVars, rateVars, ttlVars, blockTtlVars, procVars, pollVars>>

vars == <<useRedis, queue, sessions, nextSession, blockedPairs, nextClient, order, clients, pend, nOps, call,
          auxVars>>

SessionIds == 1..MaxSessions
NoUser == [id |-> None, tags |-> <<>>]
NoVideo == [requesterId |-> None, status |-> None]
NoSession == [id |-> 0, users |-> <<>>, sharedTags |-> <<>>, messages |-> <<>>,
              videoRequested |-> NoVideo]
NoCall == [user |-> NoUser, before |-> <<>>, match |-> NoUser, held |-> <<>>]
\* a clientId that is not a key of the clients Map
NoClient == [userId |-> "-", sessionId |-> -1]
NoBody == [content |-> None, userId |-> None, type |-> None,
           requesterId |-> None, accepted |-> None]
\* a handler waiting for redisClient.get: its message, client.userId and, once
\* the reply is in, the parsed session
NoPend == [op |-> None, body |-> NoBody, userId |-> None, session |-> NoSession]
\* ws.send(JSON.stringify({type, payload})) to connection c
Msg(c, type, session, body) == [to |-> c, type |-> type, session |-> session, body |-> body]

(* --------------------------- tag utilities ---------------------------- *)
LowerSet(tags) == { Lower(tags[i]) : i \in DOMAIN tags }

\* calculateMatchScore without toLowerCase
calculateMatchScoreCaseSensitive(tags1, tags2) ==
  Cardinality({ tags1[i] : i \in DOMAIN tags1 } \cap { tags2[i] : i \in DOMAIN tags2 })

calculateMatchScore(tags1, tags2) ==
  Cardinality(LowerSet(tags1) \cap LowerSet(tags2))

\* getSharedTags filtering the second list
getSharedTagsOfSecond(tags1, tags2) ==
  LET shared == { t \in LowerSet(tags1) : t \in LowerSet(tags2) }
  IN SelectSeq(tags2, LAMBDA tag : Lower(tag) \in shared)

getSharedTags(tags1, tags2) ==
  LET shared == { t \in LowerSet(tags1) : t \in LowerSet(tags2) }
  IN SelectSeq(tags1, LAMBDA tag : Lower(tag) \in shared)

(* ----------------------------- wait queue ----------------------------- *)
\* addToQueue that stores nothing
addToQueueDropping(q, user) == q

\* addToQueue: lPush (at the head) on Redis, Array.push (at the end) in memory
addToQueue(q, user) == IF useRedis THEN <<user>> \o q ELSE Append(q, user)

\* getFromQueue: rPop / Array.pop both take the last element; null when empty
getFromQueue(q) ==
  IF Len(q) = 0 THEN [user |-> NoUser, queue |-> q]
  ELSE [user |-> q[Len(q)], queue |-> SubSeq(q, 1, Len(q) - 1)]

getQueueLength(q) == Len(q)

\* removeFromQueue on Redis: lLen once, then rPop each entry and lPush it back
\* unless it is the user to remove
RECURSIVE removeLoop(_, _, _)
removeLoop(q, userId, n) ==
  IF n = 0 \/ Len(q) = 0 THEN q
  ELSE LET p == getFromQueue(q)
       IN IF p.user.id # userId
            THEN removeLoop(<<p.user>> \o p.queue, userId, n - 1)
            ELSE removeLoop(p.queue, userId, n - 1)

\* removeFromQueue: in memory findIndex + splice removes the first entry only
removeFromQueue(q, userId) ==
  IF useRedis THEN removeLoop(q, userId, Len(q))
  ELSE IF \E i \in DOMAIN q : q[i].id = userId
         THEN LET index == CHOOSE i \in DOMAIN q :
                             q[i].id = userId /\ \A j \in 1..(i - 1) : q[j].id # userId
              IN SubSeq(q, 1, index - 1) \o SubSeq(q, index + 1, Len(q))
         ELSE q

(* ----------------------------- block list ----------------------------- *)
\* isBlocked looking up blocked:<userId1>:<userId2> only
isBlockedOneWay(userId1, userId2) == <<userId1, userId2>> \in blockedPairs

\* isBlocked looking up blocked:<userId2>:<userId1> only
isBlockedReverseOnly(userId1, userId2) == <<userId2, userId1>> \in blockedPairs

\* isBlocked: the key in either direction
isBlocked(userId1, userId2) ==
  <<userId1, userId2>> \in blockedPairs \/ <<userId2, userId1>> \in blockedPairs

blockUser(userId1, userId2) == blockedPairs \cup {<<userId1, userId2>>}

(* ----------------------------- matchmaker ----------------------------- *)
\* the held candidates left in the order they were popped
sortByScoreNot(ms) == ms

\* Array.prototype.sort with (a, b) => b.score - a.score: stable, descending
RECURSIVE sortByScore(_)
sortByScore(ms) ==
  IF ms = <<>> THEN <<>>
  ELSE LET h == Head(ms)
           rest == sortByScore(Tail(ms))
           k == Cardinality({ i \in DOMAIN rest : rest[i].score > h.score })
       IN SubSeq(rest, 1, k) \o <<h>> \o SubSeq(rest, k + 1, Len(rest))

\* the skip test without the self-match comparison
skipEntryBlockedOnly(user, potentialMatch) == isBlocked(user.id, potentialMatch.id)

\* is the popped entry skipped (put back) before scoring
skipEntry(user, potentialMatch) ==
  potentialMatch.id = user.id \/ isBlocked(user.id, potentialMatch.id)

\* a field the sender left out (undefined), where a tag list is expected
Undefined == <<"undefined">>

\* calculateMatchScore calls tags.map on both lists: a TypeError when one is
\* undefined
scoreThrows(tags1, tags2) == tags1 = Undefined \/ tags2 = Undefined

\* the for loop of findMatch: n counts the iterations left; threw tells that
\* the loop was left by an exception, the popped entry not put back
RECURSIVE drain(_, _, _, _)
drain(user, q, matches, n) ==
  IF n = 0 THEN [queue |-> q, matches |-> matches, threw |-> FALSE]
  ELSE LET p == getFromQueue(q)
       IN IF p.user = NoUser THEN [queue |-> q, matches |-> matches, threw |-> FALSE]
          ELSE IF skipEntry(user, p.user)
                 THEN drain(user, addToQueue(p.queue, p.user), matches, n - 1)
          ELSE IF scoreThrows(user.tags, p.user.tags)
                 THEN [queue |-> p.queue, matches |-> matches, threw |-> TRUE]
          ELSE LET score == calculateMatchScore(user.tags, p.user.tags)
               IN IF score > 0
                    THEN drain(user, p.queue,
                               Append(matches, [user |-> p.user, score |-> score]), n - 1)
                    ELSE drain(user, addToQueue(p.queue, p.user), matches, n - 1)

\* findMatch(user) on queue q: the user returned (NoUser for null), the queue
\* it leaves, the held candidates in the order they were popped, and whether
\* it threw
findMatch(user, q) ==
  LET d == drain(user, q, <<>>, getQueueLength(q))
  IN [match |-> IF ~d.threw /\ Len(d.matches) > 0 THEN sortByScore(d.matches)[1].user
                ELSE NoUser,
      queue |-> d.queue,
      held |-> d.matches,
      threw |-> d.threw]

(* ------------------------- connection registry ------------------------ *)
Connected == { order[i] : i \in DOMAIN order }

\* [...clients.values()].find(c => c.userId === userId): Map insertion order
findClient(cl, userId) ==
  IF \E i \in DOMAIN order : cl[order[i]].userId = userId
    THEN order[CHOOSE i \in DOMAIN order :
                  /\ cl[order[i]].userId = userId
                  /\ \A j \in 1..(i - 1) : cl[order[j]].userId # userId]
    ELSE None

\* session.users.find(u => u.id !== userId)
otherUser(session, userId) ==
  IF \E i \in DOMAIN session.users : session.users[i].id # userId
    THEN session.users[CHOOSE i \in DOMAIN session.users :
                          /\ session.users[i].id # userId
                          /\ \A j \in 1..(i - 1) : session.users[j].id = userId]
    ELSE NoUser

\* the connection a handler run for userId forwards to, None when there is none
peerClient(cl, session, userId) ==
  IF otherUser(session, userId) = NoUser THEN None
  ELSE findClient(cl, otherUser(session, userId).id)

getFromStore(sid) == IF sid \in SessionIds THEN sessions[sid] ELSE NoSession

(* ------------------------------- Init --------------------------------- *)
\* no timer pending, no request counted, the clock at 0
InitAux ==
  /\ timeouts = [c \in Conns |-> 0]
  /\ joinRequests = 0
  /\ apiHits = 0
  /\ reportHits = 0
  /\ reports = <<>>
  /\ now = 0
  /\ sessionTimers = {}
  /\ sessionExpiry = [s \in SessionIds |-> 0]
  /\ lastWrite = [s \in SessionIds |-> -1]
  /\ blockTimers = {}
  /\ blockExpiry = [pr \in UserIds \X UserIds |-> 0]
  /\ lastBlock = [pr \in UserIds \X UserIds |-> -1]

\* no call in progress, nothing pushed, the hook as useState initialises it
NoTagCall == [tags1 |-> <<>>, tags2 |-> <<>>, shared |-> <<>>, reverse |-> <<>>, done |-> FALSE]
NoLoop == [user |-> NoUser, queueLength |-> 0, i |-> 0, pops |-> 0, hand |-> NoUser,
           matches |-> <<>>, broke |-> FALSE, active |-> FALSE]
NoPop == [got |-> NoUser, newest |-> NoUser]
NoHook == [isMatching |-> FALSE, currentSession |-> 0, currentUser |-> None, messages |-> <<>>]

NoHttpSession == [id |-> 0, users |-> <<>>]
NoHttp == [isMatching |-> FALSE, currentSession |-> NoHttpSession, currentUser |-> NoUser,
           timer |-> "none"]

InitProc ==
  /\ lsQueue = <<>>
  /\ http = [t \in Conns |-> NoHttp]
  /\ tagCall = NoTagCall
  /\ loop = NoLoop
  /\ pushed = <<>>
  /\ lastPop = NoPop
  /\ hook = [c \in Conns |-> NoHook]

Init ==
  /\ useRedis \in BOOLEAN
  /\ queue = <<>>
  /\ sessions = [s \in SessionIds |-> NoSession]
  /\ nextSession = 0
  /\ blockedPairs = {}
  /\ nextClient = 0
  /\ order = <<>>
  /\ clients = [c \in Conns |-> NoClient]
  /\ pend = [c \in Conns |-> NoPend]
  /\ nOps = 0
  /\ call = NoCall
  /\ InitAux
  /\ InitProc

\* wss.on('connection'): a fresh clientId is registered
Connect(c) ==
  /\ nextClient < Len(ClientIds)
  /\ c = ClientIds[nextClient + 1]
  /\ nextClient' = nextClient + 1
  /\ order' = Append(order, c)
  /\ clients' = [clients EXCEPT ![c] = [userId |-> None, sessionId |-> 0]]
  /\ UNCHANGED <<useRedis, queue, sessions, nextSession, blockedPairs, pend, nOps, call>>

(* ----------------------------- join_queue ----------------------------- *)
\* the session object built by handleJoinQueue for a match
newSession(sid, user, match) ==
  [id |-> sid,
   users |-> <<user, match>>,
   sharedTags |-> getSharedTags(user.tags, match.tags),
   messages |-> << [NoBody EXCEPT !.content = "matched", !.userId = "system",
                                  !.type = "system"] >>,
   videoRequested |-> NoVideo]

\* the matched user's registry entry gets the session id, when there is one
setMatchClient(cl, matchClient, sid) ==
  IF matchClient = None THEN cl
  ELSE [cl EXCEPT ![matchClient].sessionId = sid]

\* the catch of ws.on('message'): the error sent to the connection
InvalidFormat(c) ==
  Msg(c, "error", NoSession, [NoBody EXCEPT !.content = "Invalid message format"])

\* handleJoinQueue(clientId, {user}): what the handler returns with -- the match
\* (NoUser for null), the session stored, the registry, the queue and the
\* messages written to sockets
handleJoinQueue(c, user) ==
  LET cl1 == [clients EXCEPT ![c].userId = user.id]
      fm == findMatch(user, queue)
      sid == nextSession + 1
      session == newSession(sid, user, fm.match)
      matchClient == findClient(cl1, fm.match.id)
  IN IF fm.match # NoUser
       THEN [match |-> fm.match,
             session |-> session,
             matchClient |-> matchClient,
             clients |-> setMatchClient([cl1 EXCEPT ![c].sessionId = sid], matchClient, sid),
             queue |-> fm.queue,
             sent |-> {Msg(c, "match_found", session, NoBody)}
                      \cup (IF matchClient = None THEN {}
                            ELSE {Msg(matchClient, "match_found", session, NoBody)}),
             threw |-> FALSE]
       ELSE [match |-> NoUser,
             session |-> NoSession,
             matchClient |-> None,
             clients |-> cl1,
             \* an exception of findMatch is caught in ws.on('message')
             queue |-> IF fm.threw THEN fm.queue ELSE addToQueue(fm.queue, user),
             sent |-> IF fm.threw THEN {InvalidFormat(c)} ELSE {},
             threw |-> fm.threw]

HandleJoinQueue(c, user) ==
  /\ c \in Connected
  \* the id a browser profile sends is stable (localStorage study-buddy-user)
  /\ clients[c].userId \in {None, user.id}
  /\ LET r == handleJoinQueue(c, user)
     IN /\ IF r.match # NoUser
             THEN /\ nextSession < MaxSessions
                  /\ sessions' = [sessions EXCEPT ![r.session.id] = r.session]
                  /\ nextSession' = r.session.id
             ELSE /\ Len(r.queue) <= MaxQueue
                  /\ UNCHANGED <<sessions, nextSession>>
        /\ queue' = r.queue
        /\ clients' = r.clients
  /\ UNCHANGED <<useRedis, blockedPairs, nextClient, order, pend, nOps, call>>

(* ----------------------------- leave_queue ---------------------------- *)
\* handleLeaveQueue(clientId): the queue it leaves and the messages it sends
handleLeaveQueue(c) ==
  IF clients[c].userId = None
    THEN [queue |-> queue, sent |-> {}]
    ELSE [queue |-> removeFromQueue(queue, clients[c].userId),
          sent |-> {Msg(c, "queue_left", NoSession, [NoBody EXCEPT !.accepted = "true"])}]

HandleLeaveQueue(c) ==
  /\ c \in Connected
  /\ queue' = handleLeaveQueue(c).queue
  /\ UNCHANGED <<useRedis, sessions, nextSession, blockedPairs, nextClient, order, clients, pend, nOps, call>>

(* ------------------ chat_message / video_request / video_response ----- *)
SessionOps == {"chat_message", "video_request", "video_response"}

\* payloads a client sends with each message type: a chat text; a video offer
\* naming itself or a user outside the session as requester; an answer
Payloads(op, userId) ==
  IF op = "chat_message"
    THEN { [NoBody EXCEPT !.content = t, !.userId = userId, !.type = "message"] : t \in Contents }
  ELSE IF op = "video_request"
    THEN { [NoBody EXCEPT !.requesterId = r, !.content = "offer"] : r \in {userId, "u3"} }
  ELSE { [NoBody EXCEPT !.accepted = a, !.content = "answer"] : a \in {"true", "false"} }

\* the message object handleChatMessage appends: the payload with the
\* moderated content
chatMessage(payload) == [payload EXCEPT !.content = moderateContent(payload.content).content]

\* handleChatMessage dropping a flagged message instead of storing it cleaned
applyOpRejectFlagged(op, payload, session) ==
  IF op = "chat_message"
    THEN IF moderateContent(payload.content).flagged THEN session
         ELSE [session EXCEPT !.messages = Append(@, chatMessage(payload))]
  ELSE IF op = "video_request"
    THEN [session EXCEPT !.videoRequested =
            [requesterId |-> payload.requesterId, status |-> "pending"]]
  ELSE IF payload.accepted = "undefined" THEN session
  ELSE IF payload.accepted = "true"
    THEN [session EXCEPT !.videoRequested = [@ EXCEPT !.status = "accepted"]]
  ELSE [session EXCEPT !.videoRequested = NoVideo]

\* the change each handler makes to the session object it read
applyOp(op, payload, session) ==
  IF op = "chat_message"
    THEN [session EXCEPT !.messages = Append(@, chatMessage(payload))]
  ELSE IF op = "video_request"
    THEN [session EXCEPT !.videoRequested =
            [requesterId |-> payload.requesterId, status |-> "pending"]]
  ELSE IF payload.accepted = "undefined" THEN session
  ELSE IF payload.accepted = "true"
    THEN [session EXCEPT !.videoRequested = [@ EXCEPT !.status = "accepted"]]
  ELSE [session EXCEPT !.videoRequested = NoVideo]

\* the payload each handler forwards to the other user
forwardBody(op, payload) ==
  IF op = "chat_message" THEN chatMessage(payload) ELSE payload

\* the part of a handler after getFromStore returned session: modify, setInStore
\* with the TTL, forward to the other user's connection
completeOp(op, payload, userId, session) ==
  LET peer == peerClient(clients, session, userId)
  IN [session |-> applyOp(op, payload, session),
      sent |-> IF peer = None THEN {}
               ELSE {Msg(peer, op, NoSession, forwardBody(op, payload))}]

\* the early return without the test of the session read from the store
returnsEarlyUnlessStored(c) == clients[c].sessionId = 0

\* does the handler return before touching anything (no session reference, or
\* the session is not in the store)
returnsEarly(c) ==
  clients[c].sessionId = 0 \/ getFromStore(clients[c].sessionId) = NoSession

\* a chat_message, video_request or video_response arrives on connection c.
\* In memory the handler runs to its end; on Redis it is suspended at the get
\* and other handlers run before it resumes.
HandleSessionOp(c, op, payload) ==
  /\ c \in Connected
  /\ pend[c] = NoPend
  /\ ~returnsEarly(c)
  /\ LET session == getFromStore(clients[c].sessionId)
     IN /\ nOps < MaxOps
        /\ nOps' = nOps + 1
        /\ IF useRedis
             THEN /\ pend' = [pend EXCEPT ![c] =
                                [op |-> op, body |-> payload,
                                 userId |-> clients[c].userId, session |-> session]]
                  /\ UNCHANGED sessions
             ELSE /\ sessions' = [sessions EXCEPT ![session.id] =
                                    completeOp(op, payload, clients[c].userId, session).session]
                  /\ UNCHANGED pend
  /\ UNCHANGED <<useRedis, queue, nextSession, blockedPairs, nextClient, order, clients, call>>

\* the handler returns at once: nothing is written, nothing is sent
SessionOpNoop(c) ==
  /\ c \in Connected
  /\ returnsEarly(c)
  /\ UNCHANGED vars

\* the suspended handler of connection c resumes with the session it read
ResumeSessionOp(c) ==
  /\ pend[c] # NoPend
  /\ sessions' = [sessions EXCEPT ![pend[c].session.id] =
                    completeOp(pend[c].op, pend[c].body, pend[c].userId, pend[c].session).session]
  /\ pend' = [pend EXCEPT ![c] = NoPend]
  /\ UNCHANGED <<useRedis, queue, nextSession, blockedPairs, nextClient, order, clients, nOps, call>>

(* ---------------------------- session_ended --------------------------- *)
\* handleSessionEnd without otherClient.sessionId = null
handleSessionEndKeepPeer(c) ==
  LET session == getFromStore(clients[c].sessionId)
      peer == peerClient(clients, session, clients[c].userId)
  IN IF returnsEarly(c)
       THEN [clients |-> clients, sent |-> {}]
       ELSE [clients |-> [clients EXCEPT ![c].sessionId = 0],
             sent |-> IF peer = None THEN {}
                      ELSE {Msg(peer, "session_ended", NoSession, NoBody)}]

\* handleSessionEnd(clientId): the registry it leaves and the messages it sends
handleSessionEnd(c) ==
  LET session == getFromStore(clients[c].sessionId)
      peer == peerClient(clients, session, clients[c].userId)
  IN IF returnsEarly(c)
       THEN [clients |-> clients, sent |-> {}]
       ELSE [clients |-> [x \in Conns |->
                            IF x = c \/ x = peer
                              THEN [clients[x] EXCEPT !.sessionId = 0]
                              ELSE clients[x]],
             sent |-> IF peer = None THEN {}
                      ELSE {Msg(peer, "session_ended", NoSession, NoBody)}]

\* a handleSessionEnd that also deletes the session key
HandleSessionEndDeletes(c) ==
  /\ c \in Connected
  /\ clients' = handleSessionEnd(c).clients
  /\ sessions' = [sid \in SessionIds |->
                    IF sid = clients[c].sessionId THEN NoSession ELSE sessions[sid]]
  /\ UNCHANGED <<useRedis, queue, nextSession, blockedPairs, nextClient, order, pend, nOps, call>>

HandleSessionEnd(c) ==
  /\ c \in Connected
  /\ clients' = handleSessionEnd(c).clients
  /\ UNCHANGED <<useRedis, queue, sessions, nextSession, blockedPairs, nextClient, order, pend, nOps, call>>

(* -------------------------------- close ------------------------------- *)
\* ws.on('close'): the messages sent before the registry entry is deleted
closeSent(c) ==
  LET session == getFromStore(clients[c].sessionId)
      peer == peerClient(clients, session, clients[c].userId)
  IN IF returnsEarly(c) \/ peer = None THEN {}
     ELSE {Msg(peer, "user_disconnected", NoSession, NoBody)}

Close(c) ==
  /\ c \in Connected
  /\ clients' = [clients EXCEPT ![c] = NoClient]
  /\ order' = SelectSeq(order, LAMBDA x : x # c)
  /\ UNCHANGED <<useRedis, queue, sessions, nextSession, blockedPairs, nextClient, pend, nOps, call>>

(* ------------------------------ store TTL ----------------------------- *)
\* the expiry set with the key (setEx, or the setTimeout that deletes it) fires
ExpireSession(sid) ==
  /\ sessions[sid] # NoSession
  /\ sessions' = [sessions EXCEPT ![sid] = NoSession]
  /\ UNCHANGED <<useRedis, queue, nextSession, blockedPairs, nextClient, order, clients, pend, nOps, call>>

(* ----------------------------- POST /api/block ------------------------ *)
\* the HTTP status the route answers with
blockStatus(sid, blockedUserId) ==
  IF getFromStore(sid) = NoSession THEN 404
  ELSE IF otherUser(getFromStore(sid), blockedUserId) = NoUser THEN 400
  ELSE 200

\* the route that stores the relation before looking at the session
handleBlockUnchecked(sid, blockedUserId) ==
  [status |-> blockStatus(sid, blockedUserId),
   blockedPairs |-> blockUser(otherUser(getFromStore(sid), blockedUserId).id, blockedUserId)]

\* app.post('/api/block'): the status answered and the relations it leaves
handleBlock(sid, blockedUserId) ==
  LET blockerUser == otherUser(getFromStore(sid), blockedUserId)
  IN [status |-> blockStatus(sid, blockedUserId),
      blockedPairs |-> IF blockStatus(sid, blockedUserId) = 200
                         THEN blockUser(blockerUser.id, blockedUserId)
                         ELSE blockedPairs]

HandleBlock(sid, blockedUserId) ==
  /\ blockedPairs' = handleBlock(sid, blockedUserId).blockedPairs
  /\ UNCHANGED <<useRedis, queue, sessions, nextSession, nextClient, order, clients, pend, nOps, call>>

(* ------------------------------- Next --------------------------------- *)
\* Matching and the connection registry: three connections, three users
Next ==
  \/ \E c \in Conns : Connect(c) /\ UNCHANGED auxVars
  \/ \E c \in Conns, user \in UserPool : HandleJoinQueue(c, user) /\ UNCHANGED auxVars
  \/ \E c \in Conns : HandleLeaveQueue(c) /\ UNCHANGED auxVars
  \/ \E c \in Conns : HandleSessionEnd(c) /\ UNCHANGED auxVars
  \/ \E c \in Conns : Close(c) /\ UNCHANGED auxVars
  \/ \E sid \in SessionIds : ExpireSession(sid) /\ UNCHANGED auxVars

Spec == Init /\ [][Next]_vars

\* Two connections of two users that share a tag, with every handler of the
\* push channel, the session handlers at the granularity of their awaits
PairConns == {"c1", "c2"}
PairUsers == { u \in UserPool : u.id \in {"u1", "u2"} }

NextPair ==
  \/ \E c \in PairConns : Connect(c) /\ UNCHANGED auxVars
  \/ \E c \in PairConns, user \in PairUsers : HandleJoinQueue(c, user) /\ UNCHANGED auxVars
  \/ \E c \in PairConns : HandleLeaveQueue(c) /\ UNCHANGED auxVars
  \/ \E c \in PairConns, op \in SessionOps :
       \E payload \in Payloads(op, clients[c].userId) : HandleSessionOp(c, op, payload) /\ UNCHANGED auxVars
  \/ \E c \in PairConns : SessionOpNoop(c) /\ UNCHANGED auxVars
  \/ \E c \in PairConns : ResumeSessionOp(c) /\ UNCHANGED auxVars
  \/ \E c \in PairConns : HandleSessionEnd(c) /\ UNCHANGED auxVars
  \/ \E c \in PairConns : Close(c) /\ UNCHANGED auxVars
  \/ \E sid \in SessionIds : ExpireSession(sid) /\ UNCHANGED auxVars

SpecPair == Init /\ [][NextPair]_vars

\* The same two connections with the block route in place of the session
\* handlers
NextBlock ==
  \/ \E c \in PairConns : Connect(c) /\ UNCHANGED auxVars
  \/ \E c \in PairConns, user \in PairUsers : HandleJoinQueue(c, user) /\ UNCHANGED auxVars
  \/ \E c \in PairConns : HandleLeaveQueue(c) /\ UNCHANGED auxVars
  \/ \E c \in PairConns : HandleSessionEnd(c) /\ UNCHANGED auxVars
  \/ \E c \in PairConns : Close(c) /\ UNCHANGED auxVars
  \/ \E sid \in SessionIds : ExpireSession(sid) /\ UNCHANGED auxVars
  \/ \E sid \in SessionIds, blockedUserId \in UserIds : HandleBlock(sid, blockedUserId) /\ UNCHANGED auxVars

SpecBlock == Init /\ [][NextBlock]_vars

(* ------------------- findMatch on any queue content ------------------- *)
\* entries the wait queue may hold and block relations in force when findMatch
\* is called: one block in each direction with the candidate u1
EntryPool == [id : UserIds, tags : { <<"cs">>, <<"math", "CS">>, <<"Bio">> }]
Candidates == { [id |-> "u1", tags |-> <<"CS", "Math">>], [id |-> "u1", tags |-> <<"Bio">>] }
BlockPool == { <<"u1", "u2">>, <<"u3", "u1">> }

SeqsUpTo(S, n) == UNION { [1..k -> S] : k \in 0..n }

InitFindMatch ==
  /\ useRedis \in BOOLEAN
  /\ queue \in SeqsUpTo(EntryPool, MaxInitQueue)
  /\ blockedPairs \in SUBSET BlockPool
  /\ sessions = [s \in SessionIds |-> NoSession]
  /\ nextSession = 0
  /\ nextClient = 0
  /\ order = <<>>
  /\ clients = [c \in Conns |-> NoClient]
  /\ pend = [c \in Conns |-> NoPend]
  /\ nOps = 0
  /\ call = NoCall
  /\ InitAux
  /\ InitProc

\* const match = await findMatch(user)
FindMatchCall(user) ==
  /\ call = NoCall
  /\ LET r == findMatch(user, queue)
     IN /\ call' = [user |-> user, before |-> queue, match |-> r.match, held |-> r.held]
        /\ queue' = r.queue
  /\ UNCHANGED <<useRedis, sessions, nextSession, blockedPairs, nextClient, order, clients,
                 pend, nOps>>

NextFindMatch == \E user \in Candidates : FindMatchCall(user) /\ UNCHANGED auxVars

SpecFindMatch == InitFindMatch /\ [][NextFindMatch]_vars

(* ------------------------- the no-match timeout ----------------------- *)
\* what the setTimeout callback armed by handleJoinQueue sends when it runs
timeoutSent(c) ==
  IF clients[c] # NoClient /\ clients[c].sessionId = 0
    THEN {Msg(c, "error", NoSession, [NoBody EXCEPT !.content = "MATCHING_TIMEOUT"])}
    ELSE {}

\* handleJoinQueue with the timer it arms when there is no match
JoinQueueArmingTimeout(c, user) ==
  /\ HandleJoinQueue(c, user)
  /\ IF handleJoinQueue(c, user).match = NoUser /\ ~handleJoinQueue(c, user).threw
       THEN /\ timeouts[c] < MaxTimeouts
            /\ timeouts' = [timeouts EXCEPT ![c] = @ + 1]
       ELSE UNCHANGED timeouts
  /\ UNCHANGED <<rateVars, ttlVars, blockTtlVars, procVars, pollVars>>

\* 60 seconds after a join without match its callback runs
JoinTimeoutFires(c) ==
  /\ timeouts[c] > 0
  /\ timeouts' = [timeouts EXCEPT ![c] = @ - 1]
  /\ UNCHANGED <<useRedis, queue, sessions, nextSession, blockedPairs, nextClient, order,
                 clients, pend, nOps, call, rateVars, ttlVars, blockTtlVars, procVars, pollVars>>

NextTimeout ==
  \/ \E c \in PairConns : Connect(c) /\ UNCHANGED auxVars
  \/ \E c \in PairConns, user \in PairUsers : JoinQueueArmingTimeout(c, user)
  \/ \E c \in PairConns : HandleLeaveQueue(c) /\ UNCHANGED auxVars
  \/ \E c \in PairConns : HandleSessionEnd(c) /\ UNCHANGED auxVars
  \/ \E c \in PairConns : Close(c) /\ UNCHANGED auxVars
  \/ \E c \in PairConns : JoinTimeoutFires(c)

SpecTimeout == Init /\ [][NextTimeout]_vars

(* --------------------- join_queue and the rate limits ----------------- *)
\* createRateLimit(5 * 60 * 1000, 10), mounted on '/api/match'
MatchMax == 10

\* a join_queue message of the origin, counted as a limiter would count it;
\* handleWebSocketMessage passes it straight to handleJoinQueue
JoinQueueCounted(c, user) ==
  /\ joinRequests <= MatchMax
  /\ HandleJoinQueue(c, user)
  /\ joinRequests' = joinRequests + 1
  /\ UNCHANGED <<apiHits, reportHits, reports, timeoutVars, ttlVars, blockTtlVars, procVars, pollVars>>

NextJoinRate ==
  \/ \E c \in PairConns : Connect(c) /\ UNCHANGED auxVars
  \/ \E c \in PairConns, user \in PairUsers : JoinQueueCounted(c, user)
  \/ \E c \in PairConns : HandleLeaveQueue(c) /\ UNCHANGED auxVars

SpecJoinRate == Init /\ [][NextJoinRate]_vars

(* --------------------- the HTTP routes and their limiters ------------- *)
\* createRateLimit(15 * 60 * 1000, 100), mounted on '/api/'
ApiMax == 100
\* createRateLimit(60 * 60 * 1000, 5), mounted on '/api/report'
ReportMax == 5

\* a limiter that lets every request through
rateLimitedNever(hits, max) == FALSE

\* rateLimit({windowMs, max}): is the request that comes after hits requests of
\* the window answered 429 without reaching the route
rateLimited(hits, max) == hits + 1 > max

\* the report list after the route stored one more report
storeReport(sid) ==
  IF useRedis THEN <<[sessionId |-> sid]>> \o reports
  ELSE Append(reports, [sessionId |-> sid])

\* POST /api/report through the '/api/' and '/api/report' limiters
PostReport(sid) ==
  /\ apiHits <= ApiMax
  /\ apiHits' = apiHits + 1
  /\ IF rateLimited(apiHits, ApiMax)
       THEN UNCHANGED <<reportHits, reports>>
       ELSE /\ reportHits <= ReportMax
            /\ reportHits' = reportHits + 1
            /\ IF rateLimited(reportHits, ReportMax)
                 THEN UNCHANGED reports
                 ELSE reports' = storeReport(sid)
  /\ UNCHANGED <<useRedis, queue, sessions, nextSession, blockedPairs, nextClient, order,
                 clients, pend, nOps, call, joinRequests, timeoutVars, ttlVars, blockTtlVars, procVars, pollVars>>

\* POST /api/block through the '/api/' limiter
PostBlock(sid, blockedUserId) ==
  /\ apiHits <= ApiMax
  /\ apiHits' = apiHits + 1
  /\ IF rateLimited(apiHits, ApiMax)
       THEN UNCHANGED <<useRedis, queue, sessions, nextSession, blockedPairs, nextClient,
                        order, clients, pend, nOps, call>>
       ELSE HandleBlock(sid, blockedUserId)
  /\ UNCHANGED <<joinRequests, reportHits, reports, timeoutVars, ttlVars, blockTtlVars, procVars, pollVars>>

NextRate ==
  \/ \E c \in PairConns : Connect(c) /\ UNCHANGED auxVars
  \/ \E c \in PairConns, user \in PairUsers : HandleJoinQueue(c, user) /\ UNCHANGED auxVars
  \/ \E sid \in SessionIds : PostReport(sid)
  \/ \E sid \in SessionIds, blockedUserId \in {"u1", "u2"} : PostBlock(sid, blockedUserId)

SpecRate == Init /\ [][NextRate]_vars

(* ------------------------- expiry of session keys --------------------- *)
\* the session TTL passed to setInStore (3600 s), in ticks
SessionTTL == 2

\* nothing that is due is still pending: setTimeout callbacks and Redis
\* expiries happen when their time comes
NothingDue ==
  /\ \A t \in sessionTimers : t[2] > now
  /\ \A t \in blockTimers : t[3] > now
  /\ useRedis =>
       /\ \A sid \in SessionIds :
            (sessions[sid] # NoSession /\ lastWrite[sid] >= 0) => sessionExpiry[sid] > now
       /\ \A pr \in blockedPairs : lastBlock[pr] >= 0 => blockExpiry[pr] > now

Tick ==
  /\ now < MaxTime
  /\ NothingDue
  /\ now' = now + 1
  /\ UNCHANGED <<useRedis, queue, sessions, nextSession, blockedPairs, nextClient, order,
                 clients, pend, nOps, call, sessionTimers, sessionExpiry, lastWrite,
                 timeoutVars, rateVars, blockTtlVars, procVars, pollVars>>

\* setInStore(key, value, 3600): setEx replaces the expiry of the key; the
\* memory branch adds one more setTimeout
ArmSessionExpiry(sid) ==
  /\ lastWrite' = [lastWrite EXCEPT ![sid] = now]
  /\ IF useRedis
       THEN /\ sessionExpiry' = [sessionExpiry EXCEPT ![sid] = now + SessionTTL]
            /\ UNCHANGED sessionTimers
       ELSE /\ sessionTimers' = sessionTimers \cup {<<sid, now + SessionTTL>>}
            /\ UNCHANGED sessionExpiry
  /\ UNCHANGED <<now, timeoutVars, rateVars, blockTtlVars, procVars, pollVars>>

\* handleJoinQueue, storing the session of a match with its TTL
JoinQueueStoring(c, user) ==
  /\ HandleJoinQueue(c, user)
  /\ IF handleJoinQueue(c, user).match # NoUser
       THEN ArmSessionExpiry(handleJoinQueue(c, user).session.id)
       ELSE UNCHANGED auxVars

\* handleChatMessage up to its write (memory) or up to its get (Redis)
ChatStoring(c, payload) ==
  /\ HandleSessionOp(c, "chat_message", payload)
  /\ IF useRedis THEN UNCHANGED auxVars ELSE ArmSessionExpiry(clients[c].sessionId)

\* handleChatMessage from the reply of the get to its setEx
ResumeStoring(c) ==
  /\ ResumeSessionOp(c)
  /\ ArmSessionExpiry(pend[c].session.id)

\* the callback of a setTimeout of setInStore deletes the key
SessionTimerFires(t) ==
  /\ t \in sessionTimers
  /\ t[2] <= now
  /\ sessions' = [sessions EXCEPT ![t[1]] = NoSession]
  /\ sessionTimers' = sessionTimers \ {t}
  /\ UNCHANGED <<useRedis, queue, nextSession, blockedPairs, nextClient, order, clients,
                 pend, nOps, call, now, sessionExpiry, lastWrite,
                 timeoutVars, rateVars, blockTtlVars, procVars, pollVars>>

\* Redis drops a session key whose expiry has come
RedisSessionExpires(sid) ==
  /\ useRedis
  /\ sessionExpiry[sid] <= now
  /\ ExpireSession(sid)
  /\ UNCHANGED auxVars

NextSessionTtl ==
  \/ \E c \in PairConns : Connect(c) /\ UNCHANGED auxVars
  \/ \E c \in PairConns, user \in PairUsers : JoinQueueStoring(c, user)
  \/ \E c \in PairConns : ChatStoring(c, [NoBody EXCEPT !.content = "hello",
                                                        !.userId = clients[c].userId,
                                                        !.type = "message"])
  \/ \E c \in PairConns : ResumeStoring(c)
  \/ Tick
  \/ \E t \in sessionTimers : SessionTimerFires(t)
  \/ \E sid \in SessionIds : RedisSessionExpires(sid)

SpecSessionTtl == Init /\ [][NextSessionTtl]_vars

(* ------------------------ expiry of block relations ------------------- *)
\* the expiry of a block relation (30 days), in ticks
BlockTTL == 2

\* blockUser: setEx replaces the expiry of the key; the memory branch adds one
\* more setTimeout
ArmBlockExpiry(userId1, userId2) ==
  /\ lastBlock' = [lastBlock EXCEPT ![<<userId1, userId2>>] = now]
  /\ IF useRedis
       THEN /\ blockExpiry' = [blockExpiry EXCEPT ![<<userId1, userId2>>] = now + BlockTTL]
            /\ UNCHANGED blockTimers
       ELSE /\ blockTimers' = blockTimers \cup {<<userId1, userId2, now + BlockTTL>>}
            /\ UNCHANGED blockExpiry
  /\ UNCHANGED <<timeoutVars, rateVars, ttlVars, procVars, pollVars>>

\* POST /api/block, storing the relation with its expiry
BlockStoring(sid, blockedUserId) ==
  /\ HandleBlock(sid, blockedUserId)
  /\ IF handleBlock(sid, blockedUserId).status = 200
       THEN ArmBlockExpiry(otherUser(getFromStore(sid), blockedUserId).id, blockedUserId)
       ELSE UNCHANGED auxVars

\* the callback of a setTimeout of blockUser deletes the pair
BlockTimerFires(t) ==
  /\ t \in blockTimers
  /\ t[3] <= now
  /\ blockedPairs' = blockedPairs \ {<<t[1], t[2]>>}
  /\ blockTimers' = blockTimers \ {t}
  /\ UNCHANGED <<useRedis, queue, sessions, nextSession, nextClient, order, clients,
                 pend, nOps, call, blockExpiry, lastBlock, timeoutVars, rateVars, ttlVars, procVars, pollVars>>

\* Redis drops a blocked:<a>:<b> key whose expiry has come
RedisBlockExpires(pr) ==
  /\ useRedis
  /\ pr \in blockedPairs
  /\ blockExpiry[pr] <= now
  /\ blockedPairs' = blockedPairs \ {pr}
  /\ UNCHANGED <<useRedis, queue, sessions, nextSession, nextClient, order, clients,
                 pend, nOps, call, auxVars>>

NextBlockTtl ==
  \/ \E c \in PairConns : Connect(c) /\ UNCHANGED auxVars
  \/ \E c \in PairConns, user \in PairUsers : HandleJoinQueue(c, user) /\ UNCHANGED auxVars
  \/ \E sid \in SessionIds, blockedUserId \in {"u1", "u2"} : BlockStoring(sid, blockedUserId)
  \/ Tick
  \/ \E t \in blockTimers : BlockTimerFires(t)
  \/ \E pr \in UserIds \X UserIds : RedisBlockExpires(pr)

SpecBlockTtl == Init /\ [][NextBlockTtl]_vars

(* -------------------------- malformed messages ------------------------ *)
\* envelopes that are not a message the switch knows: text that JSON.parse
\* rejects, a type without a case, a join_queue whose payload has no user
MalformedKinds == {"unparseable", "unknown type", "join_queue without user"}

\* a join_queue user sent without tags
MalformedUsers == { [id |-> "u3", tags |-> Undefined] }

\* what is sent for a malformed envelope: the catch of ws.on('message') for a
\* SyntaxError or the TypeError of user.id, the default case of the switch
malformedSent(c, kind) ==
  IF kind = "unknown type"
    THEN {Msg(c, "error", NoSession, [NoBody EXCEPT !.content = "Unknown message type"])}
    ELSE {InvalidFormat(c)}

\* such an envelope arrives: nothing is assigned before the error is sent
HandleMalformed(c, kind) ==
  /\ c \in Connected
  /\ UNCHANGED vars

NextMalformed ==
  \/ \E c \in PairConns : Connect(c) /\ UNCHANGED auxVars
  \/ \E c \in PairConns, user \in PairUsers \cup MalformedUsers :
       HandleJoinQueue(c, user) /\ UNCHANGED auxVars
  \/ \E c \in PairConns : HandleLeaveQueue(c) /\ UNCHANGED auxVars
  \/ \E c \in PairConns, kind \in MalformedKinds : HandleMalformed(c, kind)

SpecMalformed == Init /\ [][NextMalformed]_vars

(* ------------------- getSharedTags on any two lists ------------------- *)
MaxTags == 2

serverVars == <<useRedis, queue, sessions, nextSession, blockedPairs, nextClient, order,
                clients, pend, nOps, call>>

InitTags ==
  /\ useRedis = FALSE
  /\ queue = <<>>
  /\ sessions = [s \in SessionIds |-> NoSession]
  /\ nextSession = 0
  /\ blockedPairs = {}
  /\ nextClient = 0
  /\ order = <<>>
  /\ clients = [c \in Conns |-> NoClient]
  /\ pend = [c \in Conns |-> NoPend]
  /\ nOps = 0
  /\ call = NoCall
  /\ InitAux
  /\ lsQueue = <<>>
  /\ http = [t \in Conns |-> NoHttp]
  /\ tagCall \in { [NoTagCall EXCEPT !.tags1 = a, !.tags2 = b] :
                   a \in SeqsUpTo(Tags, MaxTags), b \in SeqsUpTo(Tags, MaxTags) }
  /\ loop = NoLoop
  /\ pushed = <<>>
  /\ lastPop = NoPop
  /\ hook = [c \in Conns |-> NoHook]

\* getSharedTags(tags1, tags2) and getSharedTags(tags2, tags1)
GetSharedTagsCall ==
  /\ ~tagCall.done
  /\ tagCall' = [tagCall EXCEPT !.shared = getSharedTags(tagCall.tags1, tagCall.tags2),
                                !.reverse = getSharedTags(tagCall.tags2, tagCall.tags1),
                                !.done = TRUE]
  /\ UNCHANGED <<serverVars, timeoutVars, rateVars, ttlVars, blockTtlVars, pollVars,
                 loop, pushed, lastPop, hook>>

NextTags == GetSharedTagsCall

SpecTags == InitTags /\ [][NextTags]_vars

(* --------------- findMatch between its awaits (one call) -------------- *)
\* while (true): only the break on an empty queue ends the loop
loopContinuesUntilEmpty(l) == TRUE

\* for (let i = 0; i < queueLength; i++)
loopContinues(l) == l.i < l.queueLength

\* the other handlers run between the awaits of findMatch only when the
\* awaited call goes to Redis; the in-memory calls resolve in microtasks
MayInterleave == useRedis \/ ~loop.active

\* const queueLength = await getQueueLength()
FindMatchStart(user) ==
  /\ ~loop.active
  /\ loop' = [NoLoop EXCEPT !.user = user, !.queueLength = getQueueLength(queue),
                            !.active = TRUE]
  /\ UNCHANGED <<serverVars, timeoutVars, rateVars, ttlVars, blockTtlVars, pollVars,
                 tagCall, pushed, lastPop, hook>>

\* const potentialMatch = await getFromQueue(); if (!potentialMatch) break
FindMatchPop ==
  /\ loop.active
  /\ loop.hand = NoUser
  /\ ~loop.broke
  /\ loopContinues(loop)
  /\ loop.pops <= MaxInitQueue
  /\ LET p == getFromQueue(queue)
     IN /\ queue' = p.queue
        /\ loop' = IF p.user = NoUser
                     THEN [loop EXCEPT !.pops = @ + 1, !.broke = TRUE]
                     ELSE [loop EXCEPT !.pops = @ + 1, !.hand = p.user]
  /\ UNCHANGED <<useRedis, sessions, nextSession, blockedPairs, nextClient, order, clients,
                 pend, nOps, call, timeoutVars, rateVars, ttlVars, blockTtlVars, pollVars,
                 tagCall, pushed, lastPop, hook>>

\* the rest of the iteration: the entry goes back to the queue or is held
FindMatchDecide ==
  /\ loop.active
  /\ loop.hand # NoUser
  /\ IF skipEntry(loop.user, loop.hand)
          \/ calculateMatchScore(loop.user.tags, loop.hand.tags) = 0
       THEN /\ queue' = addToQueue(queue, loop.hand)
            /\ loop' = [loop EXCEPT !.hand = NoUser, !.i = @ + 1]
       ELSE /\ queue' = queue
            /\ loop' = [loop EXCEPT !.hand = NoUser, !.i = @ + 1,
                          !.matches = Append(@, [user |-> loop.hand,
                              score |-> calculateMatchScore(loop.user.tags, loop.hand.tags)])]
  /\ UNCHANGED <<useRedis, sessions, nextSession, blockedPairs, nextClient, order, clients,
                 pend, nOps, call, timeoutVars, rateVars, ttlVars, blockTtlVars, pollVars,
                 tagCall, pushed, lastPop, hook>>

\* the loop is over: findMatch returns
FindMatchReturn ==
  /\ loop.active
  /\ loop.hand = NoUser
  /\ loop.broke \/ ~loopContinues(loop)
  /\ loop' = [loop EXCEPT !.active = FALSE]
  /\ UNCHANGED <<serverVars, timeoutVars, rateVars, ttlVars, blockTtlVars, pollVars,
                 tagCall, pushed, lastPop, hook>>

\* another handler's addToQueue / getFromQueue
OtherPush(user) ==
  /\ MayInterleave
  /\ Len(queue) < MaxInitQueue
  /\ queue' = addToQueue(queue, user)
  /\ UNCHANGED <<useRedis, sessions, nextSession, blockedPairs, nextClient, order, clients,
                 pend, nOps, call, auxVars>>

OtherPop ==
  /\ MayInterleave
  /\ Len(queue) > 0
  /\ queue' = getFromQueue(queue).queue
  /\ UNCHANGED <<useRedis, sessions, nextSession, blockedPairs, nextClient, order, clients,
                 pend, nOps, call, auxVars>>

FindMatchSteps == FindMatchPop \/ FindMatchDecide \/ FindMatchReturn

NextLoop ==
  \/ \E user \in UserPool : FindMatchStart(user)
  \/ FindMatchPop
  \/ FindMatchDecide
  \/ FindMatchReturn
  \/ \E user \in UserPool : OtherPush(user)
  \/ OtherPop

\* the continuation of a resolved await is always run by the event loop
SpecLoop == Init /\ [][NextLoop]_vars /\ WF_vars(FindMatchSteps)

(* -------------------- the wait queue of each backend ------------------ *)
without(q, user) == SelectSeq(q, LAMBDA e : e # user)

\* addToQueue(user), for a user not waiting yet
PushWaiting(user) ==
  /\ Len(queue) < MaxInitQueue
  /\ \A i \in DOMAIN queue : queue[i] # user
  /\ queue' = addToQueue(queue, user)
  /\ pushed' = Append(pushed, user)
  /\ UNCHANGED <<useRedis, sessions, nextSession, blockedPairs, nextClient, order, clients,
                 pend, nOps, call, timeoutVars, rateVars, ttlVars, blockTtlVars, pollVars,
                 tagCall, loop, lastPop, hook>>

\* getFromQueue() on a queue that is not empty
PopWaiting ==
  /\ Len(queue) > 0
  /\ LET p == getFromQueue(queue)
     IN /\ queue' = p.queue
        /\ lastPop' = [got |-> p.user, newest |-> pushed[Len(pushed)]]
        /\ pushed' = without(pushed, p.user)
  /\ UNCHANGED <<useRedis, sessions, nextSession, blockedPairs, nextClient, order, clients,
                 pend, nOps, call, timeoutVars, rateVars, ttlVars, blockTtlVars, pollVars,
                 tagCall, loop, hook>>

NextQueue ==
  \/ \E user \in EntryPool : PushWaiting(user)
  \/ PopWaiting

SpecQueue == Init /\ [][NextQueue]_vars

(* --------------------- the client of the push channel ----------------- *)
\* currentSession when the hook was handed undefined
UndefinedSession == -1

\* lastMessage.payload.session: the field session of the payload
payloadSession(payload) ==
  IF "session" \in DOMAIN payload THEN payload.session.id ELSE UndefinedSession

\* case 'match_found' of the hook's effect
onMatchFound(h, payload) ==
  [h EXCEPT !.isMatching = FALSE, !.currentSession = payloadSession(payload),
            !.messages = <<>>]

\* case 'chat_message' of the hook's effect: lastMessage.payload.message, the
\* field message of the forwarded payload
onChatMessage(h, payload) ==
  [h EXCEPT !.messages = Append(@, IF "message" \in DOMAIN payload THEN payload.message
                                   ELSE "undefined")]

\* the connections that are sent match_found by a join_queue of c
matchFoundTo(c, user) ==
  { m.to : m \in { n \in handleJoinQueue(c, user).sent : n.type = "match_found" } }

\* startMatching(user) in the client of c, the server's handleJoinQueue and
\* the hook's effect in every client that is sent match_found
StartMatching(c, user) ==
  /\ HandleJoinQueue(c, user)
  /\ hook' = [x \in Conns |->
               IF x \in matchFoundTo(c, user)
                 THEN onMatchFound(IF x = c THEN [hook[x] EXCEPT !.currentUser = user.id]
                                   ELSE hook[x],
                                   handleJoinQueue(c, user).session)
               ELSE IF x = c THEN [hook[x] EXCEPT !.isMatching = TRUE,
                                                  !.currentUser = user.id]
               ELSE hook[x]]
  /\ UNCHANGED <<timeoutVars, rateVars, ttlVars, blockTtlVars, pollVars, tagCall, loop, pushed, lastPop>>

\* stopMatching() in the client of c and the server's handleLeaveQueue
StopMatching(c) ==
  /\ HandleLeaveQueue(c)
  /\ hook' = [hook EXCEPT ![c].isMatching = FALSE]
  /\ UNCHANGED <<timeoutVars, rateVars, ttlVars, blockTtlVars, pollVars, tagCall, loop, pushed, lastPop>>

\* !currentSession: null and undefined are falsy
NoCurrentSession(h) == h.currentSession \in {0, UndefinedSession}

\* sendMessage(content) in the client of c: nothing when the hook holds no
\* session or no user; else the message is appended locally and chat_message
\* {message, sessionId} is sent. That payload has no content: the server's
\* moderateContent(payload.content) hands undefined to Filter.clean, whose
\* string.split throws, and the catch of ws.on('message') answers the sender.
sendMessage(c, content) ==
  IF NoCurrentSession(hook[c]) \/ hook[c].currentUser = None
    THEN [hook |-> hook, sessions |-> sessions, sent |-> {}]
    ELSE [hook |-> [x \in Conns |->
                     IF x = c THEN [hook[x] EXCEPT !.messages = Append(@, content)]
                     ELSE hook[x]],
          sessions |-> sessions,
          sent |-> IF returnsEarly(c) THEN {} ELSE {InvalidFormat(c)}]

SendMessage(c, content) ==
  /\ c \in Connected
  /\ hook' = sendMessage(c, content).hook
  /\ sessions' = sendMessage(c, content).sessions
  /\ UNCHANGED <<useRedis, queue, nextSession, blockedPairs, nextClient, order, clients,
                 pend, nOps, call, timeoutVars, rateVars, ttlVars, blockTtlVars, pollVars,
                 tagCall, loop, pushed, lastPop>>

NextClient ==
  \/ \E c \in Conns : Connect(c) /\ UNCHANGED auxVars
  \/ \E c \in Conns, user \in UserPool : StartMatching(c, user)
  \/ \E c \in Conns : StopMatching(c)
  \/ \E c \in Conns, content \in Contents : SendMessage(c, content)

SpecClient == Init /\ [][NextClient]_vars

(* ------------------------ the polling transport ----------------------- *)
\* Date.now() - entry.timestamp < 60000, in ticks
MatchWindow == 2

Tabs == {"c1", "c2"}
\* u1 and u3 have the tag CS in common as written, u1 and u2 only when case
\* is ignored
PollUsers == { [id |-> "u1", tags |-> <<"CS", "Math">>],
               [id |-> "u2", tags |-> <<"cs">>],
               [id |-> "u3", tags |-> <<"math", "CS">>] }

\* entry.user.tags.some(tag => currentUser.tags.includes(tag))
tagsSome(tags1, tags2) ==
  \E i \in DOMAIN tags1 : \E j \in DOMAIN tags2 : tags1[i] = tags2[j]

\* the predicate of queue.find in poll
pollAccepts(me, entry) ==
  /\ entry.user.id # me.id
  /\ tagsSome(entry.user.tags, me.tags)
  /\ now - entry.timestamp < MatchWindow

\* queue.find: the index of the first entry accepted, 0 when there is none
potentialMatch(me) ==
  IF \E k \in DOMAIN lsQueue : pollAccepts(me, lsQueue[k])
    THEN CHOOSE k \in DOMAIN lsQueue :
           /\ pollAccepts(me, lsQueue[k])
           /\ \A j \in 1..(k - 1) : ~pollAccepts(me, lsQueue[j])
    ELSE 0

\* id: `session-${Date.now()}`
httpSession(user, partner) == [id |-> now + 1, users |-> <<user, partner>>]

\* the matching part of poll in tab t: the queue and the hook states it leaves
poll(t) ==
  LET me == http[t].currentUser
      k == potentialMatch(me)
  IN IF http[t].isMatching /\ me # NoUser /\ Len(lsQueue) > 0 /\ k # 0
       THEN [lsQueue |-> SelectSeq(lsQueue, LAMBDA e : e.user.id # me.id
                                                      /\ e.user.id # lsQueue[k].user.id),
             http |-> [http EXCEPT ![t].currentSession = httpSession(me, lsQueue[k].user),
                                   ![t].isMatching = FALSE]]
       ELSE [lsQueue |-> lsQueue, http |-> http]

Poll(t) ==
  /\ lsQueue' = poll(t).lsQueue
  /\ http' = poll(t).http
  /\ UNCHANGED <<serverVars, timeoutVars, rateVars, ttlVars, blockTtlVars, procVars>>

\* startMatching(user) of the polling hook: the tab's earlier entry is replaced
\* and a timer is armed whose callback sees isMatching as it was at this call
HttpStartMatching(t, user) ==
  /\ http[t].currentUser \in {NoUser, user}
  /\ lsQueue' = Append(SelectSeq(lsQueue, LAMBDA e : e.user.id # user.id),
                       [user |-> user, timestamp |-> now])
  /\ http' = [http EXCEPT ![t].currentUser = user, ![t].isMatching = TRUE,
                          ![t].timer = IF http[t].isMatching THEN "matching" ELSE "idle"]
  /\ UNCHANGED <<serverVars, timeoutVars, rateVars, ttlVars, blockTtlVars, procVars>>

\* stopMatching() of the polling hook
HttpStopMatching(t) ==
  /\ lsQueue' = IF http[t].currentUser = NoUser THEN lsQueue
                ELSE SelectSeq(lsQueue, LAMBDA e : e.user.id # http[t].currentUser.id)
  /\ http' = [http EXCEPT ![t].isMatching = FALSE, ![t].timer = "none"]
  /\ UNCHANGED <<serverVars, timeoutVars, rateVars, ttlVars, blockTtlVars, procVars>>

\* the setTimeout callback of startMatching: a session with the demo partner
\* when the isMatching it captured is true
DemoTimeout(t) ==
  /\ http[t].timer # "none"
  /\ http' = IF http[t].timer = "matching"
               THEN [http EXCEPT ![t].timer = "none", ![t].isMatching = FALSE,
                       ![t].currentSession =
                          httpSession(http[t].currentUser,
                                      [id |-> "demo-partner", tags |-> http[t].currentUser.tags])]
               ELSE [http EXCEPT ![t].timer = "none"]
  /\ UNCHANGED <<lsQueue, serverVars, timeoutVars, rateVars, ttlVars, blockTtlVars, procVars>>

\* time passes, until the oldest entry can have left the window
PollTick ==
  /\ now < MatchWindow
  /\ now' = now + 1
  /\ UNCHANGED <<serverVars, timeoutVars, rateVars, sessionTimers, sessionExpiry, lastWrite,
                 blockTtlVars, procVars, pollVars>>

InitPoll ==
  /\ useRedis = FALSE
  /\ queue = <<>>
  /\ sessions = [s \in SessionIds |-> NoSession]
  /\ nextSession = 0
  /\ blockedPairs \in { {}, BlockPool }
  /\ nextClient = 0
  /\ order = <<>>
  /\ clients = [c \in Conns |-> NoClient]
  /\ pend = [c \in Conns |-> NoPend]
  /\ nOps = 0
  /\ call = NoCall
  /\ InitAux
  /\ InitProc

NextPoll ==
  \/ \E t \in Tabs, user \in PollUsers : HttpStartMatching(t, user)
  \/ \E t \in Tabs : HttpStopMatching(t)
  \/ \E t \in Tabs : Poll(t)
  \/ \E t \in Tabs : DemoTimeout(t)
  \/ PollTick

SpecPoll == InitPoll /\ [][NextPoll]_vars

(* ------------------- disconnect, reconnect and re-join ---------------- *)
\* two users on three connections: a user who closed its connection comes
\* back on a fresh one with the same id
\* one chat text and one video offer
OnePayload(op, userId) ==
  { payload \in Payloads(op, userId) :
      /\ payload.content \in {"hello", "offer"}
      /\ payload.requesterId \in {None, userId} }

NextReconnect ==
  \/ \E c \in Conns : Connect(c) /\ UNCHANGED auxVars
  \/ \E c \in Conns, user \in PairUsers : HandleJoinQueue(c, user) /\ UNCHANGED auxVars
  \/ \E c \in Conns, op \in {"chat_message", "video_request"} :
       \E payload \in OnePayload(op, clients[c].userId) : HandleSessionOp(c, op, payload) /\ UNCHANGED auxVars
  \/ \E c \in Conns : ResumeSessionOp(c) /\ UNCHANGED auxVars
  \/ \E c \in Conns : HandleSessionEnd(c) /\ UNCHANGED auxVars
  \/ \E c \in Conns : Close(c) /\ UNCHANGED auxVars

SpecReconnect == Init /\ [][NextReconnect]_vars

(* ============================== claims ================================ *)
\* C1: findMatch never returns an entry with the candidate's own id, and never
\* a user blocked with the candidate in either direction.
C1_NeverSelfNorBlocked ==
  (call # NoCall /\ call.match # NoUser) =>
     /\ call.match.id # call.user.id
     /\ <<call.user.id, call.match.id>> \notin blockedPairs
     /\ <<call.match.id, call.user.id>> \notin blockedPairs

\* a match was returned from a queue that also held the candidate itself and
\* a user blocked with the candidate, both sharing a tag with the candidate
C1_Witness ==
  /\ call.match # NoUser
  /\ \E i, j \in DOMAIN call.before :
       /\ call.before[i].id = call.user.id
       /\ \/ <<call.user.id, call.before[j].id>> \in blockedPairs
          \/ <<call.before[j].id, call.user.id>> \in blockedPairs
       /\ \A n \in {i, j} :
            LowerSet(call.before[n].tags) \cap LowerSet(call.user.tags) # {}

\* C2: after findMatch returns a user, every other drained entry is back in the
\* queue exactly once: the queue is one entry shorter than before the call.
C2_QueueShorterByOne ==
  (call # NoCall /\ call.match # NoUser) =>
     /\ Len(queue) = Len(call.before) - 1
     /\ \A u \in EntryPool :
          Cardinality({ i \in DOMAIN queue : queue[i] = u })
            = Cardinality({ i \in DOMAIN call.before : call.before[i] = u })
              - (IF u = call.match THEN 1 ELSE 0)

\* do two tag lists share a tag, compared case-insensitively
ShareTag(tags1, tags2) ==
  \E i \in DOMAIN tags1, j \in DOMAIN tags2 : Lower(tags1[i]) = Lower(tags2[j])

\* C3: whenever a join_queue finds a match, one session is created, the
\* joiner's connection and a connection of the matched user both reference
\* it, and match_found carrying it is sent to both.
C3_BothMatched ==
  [][\A c \in Conns, user \in UserPool :
       (HandleJoinQueue(c, user) /\ handleJoinQueue(c, user).match # NoUser) =>
          LET r == handleJoinQueue(c, user)
          IN /\ sessions'[r.session.id] = r.session
             /\ clients'[c].sessionId = r.session.id
             /\ Msg(c, "match_found", r.session, NoBody) \in r.sent
             /\ \E x \in Connected \ {c} :
                  /\ clients'[x].userId = r.match.id
                  /\ clients'[x].sessionId = r.session.id
                  /\ Msg(x, "match_found", r.session, NoBody) \in r.sent]_vars

\* C4: a join on the empty queue finds no match and leaves the joiner as the
\* only entry; the join of a different, unblocked user sharing a tag with that
\* entry, whose connection is the one registered for its id, then returns the
\* entry, sends match_found with one and the same session to both connections
\* and leaves the queue empty.
C4_JoinThenMatch ==
  [][\A c \in Conns, user \in UserPool :
       HandleJoinQueue(c, user) =>
          LET r == handleJoinQueue(c, user)
          IN /\ queue = <<>> => (r.match = NoUser /\ queue' = <<user>>)
             /\ \A x \in Connected \ {c} :
                  ( /\ Len(queue) = 1
                    /\ queue[1].id = clients[x].userId
                    /\ \A y \in Connected : clients[y].userId = queue[1].id => y = x
                    /\ queue[1].id # user.id
                    /\ <<user.id, queue[1].id>> \notin blockedPairs
                    /\ <<queue[1].id, user.id>> \notin blockedPairs
                    /\ ShareTag(user.tags, queue[1].tags) )
                  => /\ r.match = queue[1]
                     /\ queue' = <<>>
                     /\ sessions'[r.session.id] = r.session
                     /\ r.session.id # 0
                     /\ r.sent = { Msg(c, "match_found", r.session, NoBody),
                                   Msg(x, "match_found", r.session, NoBody) }]_vars

\* the second join has matched: both connections reference the session and the
\* queue is empty again
C4_Witness ==
  /\ queue = <<>>
  /\ sessions[1] # NoSession
  /\ \E x, y \in Connected :
       /\ x # y
       /\ clients[x].sessionId = 1 /\ clients[y].sessionId = 1
       /\ clients[x].userId = sessions[1].users[1].id
       /\ clients[y].userId = sessions[1].users[2].id

\* C5: the wait queue never holds two entries with the same user id.
C5_OneEntryPerUser ==
  \A i, j \in DOMAIN queue : queue[i].id = queue[j].id => i = j

IsPrefix(a, b) == Len(a) <= Len(b) /\ SubSeq(b, 1, Len(a)) = a

\* the ids of the users of session other than userId
OtherIds(session, userId) ==
  { session.users[i].id : i \in DOMAIN session.users } \ {userId}

Registered(userId) == \E x \in Connected : clients[x].userId = userId

C7_AppendOnly ==
  [][\A sid \in SessionIds :
       (sessions[sid] # NoSession /\ sessions'[sid] # NoSession) =>
          /\ IsPrefix(sessions[sid].messages, sessions'[sid].messages)
          /\ sessions'[sid].messages[1].type = "system"
          /\ \A i \in 2..Len(sessions'[sid].messages) :
               sessions'[sid].messages[i].type # "system"]_vars

\* what C8 asks of a chat_message handled for connection c: the message with
\* the moderated content is the last one of the stored session, and a
\* connection registered for the other user is sent it
ChatDelivered(payload, userId, session, sentNow) ==
  LET m == [payload EXCEPT !.content = moderateContent(payload.content).content]
  IN /\ sessions'[session.id] # NoSession
     /\ Len(sessions'[session.id].messages) >= 2
     /\ sessions'[session.id].messages[Len(sessions'[session.id].messages)] = m
     /\ \A pid \in OtherIds(session, userId) :
          Registered(pid) =>
             \E x \in Connected :
                /\ clients[x].userId = pid
                /\ Msg(x, "chat_message", NoSession, m) \in sentNow

PeerEnded(c, session) ==
  \A pid \in OtherIds(session, clients[c].userId) :
     Registered(pid) =>
        \E x \in Connected :
           /\ clients[x].userId = pid
           /\ handleSessionEnd(c).clients[x].sessionId = 0
           /\ Msg(x, "session_ended", NoSession, NoBody) \in handleSessionEnd(c).sent

C10_StoreUntouched ==
  [][/\ \A c \in Conns : (HandleSessionEnd(c) \/ Close(c)) => sessions' = sessions
     /\ \A sid \in SessionIds :
          (sessions[sid] # NoSession /\ sessions'[sid] = NoSession) => ExpireSession(sid)
     /\ \A c \in Conns :
          (Close(c) /\ ~returnsEarly(c)) =>
             \A pid \in OtherIds(getFromStore(clients[c].sessionId), clients[c].userId) :
                Registered(pid) =>
                   \E x \in Connected :
                      /\ clients[x].userId = pid
                      /\ clients'[x] = clients[x]
                      /\ Msg(x, "user_disconnected", NoSession, NoBody) \in closeSent(c)]_vars

\* a participant's connection has closed while matched: the session is still
\* stored and the peer still references it
C10_Witness ==
  \E sid \in SessionIds :
     /\ sessions[sid] # NoSession
     /\ Len(sessions[sid].messages) >= 2
     /\ ~Registered(sessions[sid].users[1].id)
     /\ \E x \in Connected :
          /\ clients[x].userId = sessions[sid].users[2].id
          /\ clients[x].sessionId = sid

\* C13: a video_request handled while the session's request is pending leaves
\* the stored request (requesterId and status) as it was.
C13_PendingRequestRejected ==
  [][\A c \in Conns :
       /\ \A payload \in Payloads("video_request", clients[c].userId) :
            ( /\ ~useRedis
              /\ HandleSessionOp(c, "video_request", payload)
              /\ getFromStore(clients[c].sessionId).videoRequested.status = "pending" ) =>
               sessions'[clients[c].sessionId].videoRequested
                 = sessions[clients[c].sessionId].videoRequested
       /\ ( /\ pend[c].op = "video_request"
            /\ ResumeSessionOp(c)
            /\ pend[c].session.videoRequested.status = "pending" ) =>
               sessions'[pend[c].session.id].videoRequested
                 = pend[c].session.videoRequested]_vars

\* C14: after leave_queue from a connection whose user is queued, the queue is
\* the previous queue without the entries of that user id, in the same order,
\* and queue_left{success: true} is sent to the caller.
C14_LeaveRemovesUser ==
  [][\A c \in Conns :
       ( /\ HandleLeaveQueue(c)
         /\ \E i \in DOMAIN queue : queue[i].id = clients[c].userId ) =>
          /\ queue' = SelectSeq(queue, LAMBDA u : u.id # clients[c].userId)
          /\ Msg(c, "queue_left", NoSession, [NoBody EXCEPT !.accepted = "true"])
               \in handleLeaveQueue(c).sent]_vars

\* C15: leave_queue from a connection with no queue entry leaves the queue as
\* it is and is answered with queue_left{success: true}.
C15_LeaveWhenNotQueued ==
  \A c \in Connected :
     (\A i \in DOMAIN queue : queue[i].id # clients[c].userId) =>
        /\ handleLeaveQueue(c).queue = queue
        /\ Msg(c, "queue_left", NoSession, [NoBody EXCEPT !.accepted = "true"])
             \in handleLeaveQueue(c).sent

\* C18: POST /api/block answers 404 when the session is not in the store and
\* 400 when the session has no user other than the blocked one, and in both
\* cases stores no relation.
C18_BlockErrorsChangeNothing ==
  \A sid \in SessionIds, blockedUserId \in UserIds :
     LET r == handleBlock(sid, blockedUserId)
         session == getFromStore(sid)
     IN /\ session = NoSession => r.status = 404
        /\ ( /\ session # NoSession
             /\ \A i \in DOMAIN session.users : session.users[i].id = blockedUserId ) =>
              r.status = 400
        /\ r.status \in {404, 400} => r.blockedPairs = blockedPairs

\* a block was stored for a session that has since left the store: a further
\* request naming it is answered 404
C18_Witness ==
  \E sid \in SessionIds :
     /\ sid <= nextSession
     /\ sessions[sid] = NoSession
     /\ blockedPairs # {}
     /\ handleBlock(sid, "u1").status = 404

\* C12: the no-match notice is sent only to a connection whose user still has
\* an entry in the wait queue; a timer that fires after leave_queue, or after a
\* match and session_ended, sends nothing.
C12_StaleTimeoutSilent ==
  [][\A c \in Conns :
       (JoinTimeoutFires(c) /\ timeoutSent(c) # {}) =>
          \E i \in DOMAIN queue : queue[i].id = clients[c].userId]_vars

\* C19: the 11th join_queue of one origin in the window is rejected: it
\* changes neither the queue, the sessions nor the registry.
C19_EleventhJoinRejected ==
  [][\A c \in Conns, user \in UserPool :
       (HandleJoinQueue(c, user) /\ joinRequests >= MatchMax) =>
          UNCHANGED <<queue, sessions, clients>>]_vars

\* C20: a request answered 429 by a limiter changes nothing: a report beyond
\* ReportMax in the window leaves the reports list as it is, and an /api
\* request beyond ApiMax leaves reports, queue, sessions and block relations
\* as they are.
C20_RejectedMutatesNothing ==
  [][/\ \A sid \in SessionIds :
          (PostReport(sid) /\ (reportHits >= ReportMax \/ apiHits >= ApiMax)) =>
             UNCHANGED <<reports, queue, sessions, blockedPairs>>
     /\ \A sid \in SessionIds, blockedUserId \in UserIds :
          (PostBlock(sid, blockedUserId) /\ apiHits >= ApiMax) =>
             UNCHANGED <<reports, queue, sessions, blockedPairs>>]_vars

\* the sixth report of the window and the 101st /api request have been
\* answered, with the five accepted reports stored
C20_Witness ==
  /\ reportHits = ReportMax + 1
  /\ apiHits = ApiMax + 1
  /\ Len(reports) = ReportMax

\* C11: a session is in the store at every time less than the TTL after its
\* most recent write, and is gone once more than the TTL has passed since it.
C11_TtlFromLastWrite ==
  \A sid \in SessionIds :
     lastWrite[sid] >= 0 =>
        /\ now < lastWrite[sid] + SessionTTL => sessions[sid] # NoSession
        /\ now > lastWrite[sid] + SessionTTL => sessions[sid] = NoSession

\* C17: a block relation is in force at every time less than 30 days after the
\* most recent block call for the pair.
C17_BlockExpiryFromLastCall ==
  \A pr \in UserIds \X UserIds :
     (lastBlock[pr] >= 0 /\ now < lastBlock[pr] + BlockTTL) => pr \in blockedPairs

\* C16: while a relation stored by block(A, B) is in force, isBlocked(A, B)
\* and isBlocked(B, A) are both true, from the step that stores it.
C16_BlockSymmetric ==
  [][/\ \A pr \in blockedPairs' :
          (isBlocked(pr[1], pr[2]) /\ isBlocked(pr[2], pr[1]))'
     /\ \A sid \in SessionIds, blockedUserId \in UserIds :
          (HandleBlock(sid, blockedUserId) /\ handleBlock(sid, blockedUserId).status = 200) =>
             LET blockerId == otherUser(getFromStore(sid), blockedUserId).id
             IN (isBlocked(blockerId, blockedUserId) /\ isBlocked(blockedUserId, blockerId))']_vars

\* relations are in force in both directions of a pair and in one direction
\* only of another
C16_Witness ==
  \E a, b \in UserIds :
     /\ a # b
     /\ <<a, b>> \in blockedPairs
     /\ <<b, a>> \notin blockedPairs
     /\ lastBlock[<<a, b>>] >= 0
     /\ now > 0

\* C22: for a connection whose referenced session is not in the store, no
\* chat_message, video_request or video_response is handled past the early
\* return, and session_ended changes no registry entry and sends nothing; the
\* store is not written.
C22_UnknownSessionNoop ==
  [][\A c \in Connected :
       (clients[c].sessionId # 0 /\ getFromStore(clients[c].sessionId) = NoSession) =>
          /\ handleSessionEnd(c).clients = clients
          /\ handleSessionEnd(c).sent = {}
          /\ HandleSessionEnd(c) => UNCHANGED <<sessions, clients, queue>>
          /\ \A op \in SessionOps :
               \A payload \in Payloads(op, clients[c].userId) :
                  ~HandleSessionOp(c, op, payload)]_vars

\* a connection still references a session that has left the store
C22_Witness ==
  \E c \in Connected :
     /\ clients[c].sessionId # 0
     /\ getFromStore(clients[c].sessionId) = NoSession
     /\ pend[c] = NoPend
     /\ nOps > 0

\* C24: the user findMatch returns has the greatest number of tags shared
\* case-insensitively with the candidate among the held entries, and is the
\* first popped among those with that number.
C24_BestScoreFirstSeen ==
  (call # NoCall /\ call.match # NoUser) =>
     \E k \in DOMAIN call.held :
        /\ call.held[k].user = call.match
        /\ \A j \in DOMAIN call.held :
             /\ Cardinality(LowerSet(call.user.tags) \cap LowerSet(call.held[j].user.tags))
                  <= Cardinality(LowerSet(call.user.tags) \cap LowerSet(call.match.tags))
             /\ j < k =>
                  Cardinality(LowerSet(call.user.tags) \cap LowerSet(call.held[j].user.tags))
                    < Cardinality(LowerSet(call.user.tags) \cap LowerSet(call.match.tags))

\* three entries were held, the first popped with a lower score than the two
\* that tie for the best, and the second popped was returned
C24_Witness ==
  /\ call # NoCall
  /\ Len(call.held) = 3
  /\ call.held[1].score < call.held[2].score
  /\ call.held[2].score = call.held[3].score
  /\ call.held[2].user # call.held[3].user
  /\ call.match = call.held[2].user

\* C25: while the handler of a connection's message is suspended at a store
\* await, no session_ended of the same connection is handled and changes the
\* connection's registry entry.
C25_OneHandlerAtATime ==
  [][\A c \in Conns :
       pend[c] # NoPend => ~(HandleSessionEnd(c) /\ clients'[c] # clients[c])]_vars

\* C26: no join_queue or leave_queue step loses a wait entry: every entry
\* queued before the step is queued after it, unless it is the user matched by
\* the step or an entry of the user who left.
C26_NoEntryLost ==
  [][/\ \A c \in Conns, user \in UserPool :
          HandleJoinQueue(c, user) =>
             \A i \in DOMAIN queue :
                queue[i] # handleJoinQueue(c, user).match =>
                   \E j \in DOMAIN queue' : queue'[j] = queue[i]
     /\ \A c \in Conns :
          HandleLeaveQueue(c) =>
             \A i \in DOMAIN queue :
                queue[i].id # clients[c].userId =>
                   \E j \in DOMAIN queue' : queue'[j] = queue[i]]_vars

\* C29: a join_queue handled for a connection that references a session
\* neither replaces that reference nor enqueues the user.
C29_NoJoinWhileMatched ==
  [][\A c \in Conns, user \in UserPool :
       (HandleJoinQueue(c, user) /\ clients[c].sessionId # 0) =>
          /\ clients'[c].sessionId = clients[c].sessionId
          /\ queue' = queue]_vars

\* C21: a malformed message is answered with an error to its sender only and
\* changes neither the queue, the sessions nor any registry entry, and no
\* join_queue of a well-formed user fails afterwards.
C21_MalformedChangesNothing ==
  [][/\ \A c \in Connected, kind \in MalformedKinds :
          /\ \E m \in malformedSent(c, kind) : m.type = "error"
          /\ \A m \in malformedSent(c, kind) : m.to = c
     /\ \A c \in Conns, user \in MalformedUsers :
          HandleJoinQueue(c, user) =>
             /\ UNCHANGED <<queue, sessions, clients>>
             /\ \E m \in handleJoinQueue(c, user).sent : m.type = "error" /\ m.to = c
     /\ \A c \in Conns, user \in UserPool :
          HandleJoinQueue(c, user) => ~handleJoinQueue(c, user).threw]_vars

\* C23: getSharedTags(A, B) is the elements of A whose lowercase form is the
\* lowercase form of some element of B, in A's order and casing, and it has the
\* same members as getSharedTags(B, A) when compared case-insensitively.
C23_SharedTagsOfFirst ==
  tagCall.done =>
    /\ tagCall.shared =
         SelectSeq(tagCall.tags1,
                   LAMBDA a : \E j \in DOMAIN tagCall.tags2 : Lower(a) = Lower(tagCall.tags2[j]))
    /\ LowerSet(tagCall.shared) = LowerSet(tagCall.reverse)

C23_Witness ==
  /\ tagCall.done
  /\ Len(tagCall.shared) = 1
  /\ Len(tagCall.tags1) = 2
  /\ tagCall.shared # tagCall.reverse

\* C27: a call of findMatch pops at most queueLength times, queueLength being
\* the length read once at its start, whatever other handlers push or pop
\* meanwhile, and the call returns.
C27_BoundedPops ==
  /\ [](loop.pops <= loop.queueLength)
  /\ (loop.active ~> ~loop.active)

C27_Witness ==
  /\ useRedis
  /\ loop.active
  /\ loop.pops = 2
  /\ loop.queueLength = 2
  /\ Len(queue) > 1

\* C28: on both backends getFromQueue returns the most recently pushed entry
\* that is still in the queue.
C28_PopNewest == lastPop # NoPop => lastPop.got = lastPop.newest

\* C30: every client that is sent match_found for a new session ends with
\* currentSession that session and isMatching false.
C30_ClientHoldsSession ==
  [][\A c \in Conns, user \in UserPool :
       (StartMatching(c, user) /\ handleJoinQueue(c, user).match # NoUser) =>
          \A x \in matchFoundTo(c, user) :
             /\ hook'[x].currentSession = handleJoinQueue(c, user).session.id
             /\ ~hook'[x].isMatching]_vars

\* C31: sendMessage(content) of a client whose connection is in a stored
\* session with a connected peer appends a message with the moderated content
\* to the session, and the peer's client appends a message to its list.
C31_ChatReachesPeer ==
  \A c \in Connected, content \in Contents :
    (/\ clients[c].sessionId # 0
     /\ getFromStore(clients[c].sessionId) # NoSession
     /\ hook[c].currentSession # 0
     /\ peerClient(clients, getFromStore(clients[c].sessionId), clients[c].userId) # None) =>
       LET sid == clients[c].sessionId
           peer == peerClient(clients, getFromStore(sid), clients[c].userId)
           r == sendMessage(c, content)
       IN /\ Len(r.sessions[sid].messages) = Len(sessions[sid].messages) + 1
          /\ r.sessions[sid].messages[Len(r.sessions[sid].messages)].content = Clean(content)
          /\ Len(r.hook[peer].messages) = Len(hook[peer].messages) + 1

\* C32: a poll of a waiting tab pairs its user exactly when the localStorage
\* queue holds a user with another id, a tag in common compared
\* case-insensitively and no block in either direction, and then another tab
\* holds a session with the same id.
C32_PollPairsAsMatchmaker ==
  \A t \in Tabs :
    (http[t].isMatching /\ http[t].currentUser # NoUser) =>
      LET me == http[t].currentUser
          paired == poll(t).http[t].currentSession # http[t].currentSession
      IN /\ paired <=>
              \E k \in DOMAIN lsQueue :
                 /\ lsQueue[k].user.id # me.id
                 /\ calculateMatchScore(me.tags, lsQueue[k].user.tags) > 0
                 /\ ~isBlocked(me.id, lsQueue[k].user.id)
         /\ paired =>
              \E t2 \in Tabs \ {t} :
                 poll(t).http[t2].currentSession.id = poll(t).http[t].currentSession.id

\* C33: when the queue findMatch starts from holds an entry of another user,
\* not blocked with the candidate in either direction, that shares a tag with
\* the candidate case-insensitively, findMatch returns a user.
C33_MatchingComplete ==
  (/\ call # NoCall
   /\ \E i \in DOMAIN call.before :
        /\ call.before[i].id # call.user.id
        /\ ~isBlocked(call.user.id, call.before[i].id)
        /\ ShareTag(call.user.tags, call.before[i].tags)) =>
     call.match # NoUser

\* C35: no user whose connection references a session has an entry in the
\* wait queue.
C35_MatchedNotQueued ==
  \A c \in Connected :
    clients[c].sessionId # 0 =>
      \A i \in DOMAIN queue : queue[i].id # clients[c].userId

\* C36: when findMatch returns none the queue holds each entry as many times
\* as before the call.
C36_NoneKeepsQueue ==
  (call # NoCall /\ call.match = NoUser) =>
     /\ Len(queue) = Len(call.before)
     /\ \A u \in EntryPool :
          Cardinality({ i \in DOMAIN queue : queue[i] = u })
            = Cardinality({ i \in DOMAIN call.before : call.before[i] = u })

\* none was returned from a queue of three entries: the candidate itself, a
\* user blocked with it, and a user with no tag in common
C36_Witness ==
  /\ call # NoCall
  /\ call.match = NoUser
  /\ Len(call.before) = 3
  /\ \E i, j, k \in DOMAIN call.before :
       /\ call.before[i].id = call.user.id
       /\ call.before[j].id # call.user.id
       /\ isBlocked(call.user.id, call.before[j].id)
       /\ ShareTag(call.user.tags, call.before[j].tags)
       /\ call.before[k].id # call.user.id
       /\ ~isBlocked(call.user.id, call.before[k].id)
       /\ ~ShareTag(call.user.tags, call.before[k].tags)

\* C34: whatever a handler run for a connection in session S forwards
\* (chat_message, video_request, video_response, session_ended) goes to a
\* connection whose own session reference is S.
C34_ForwardWithinSession ==
  \A c \in Connected :
    ~returnsEarly(c) =>
      /\ \A op \in SessionOps : \A payload \in Payloads(op, clients[c].userId) :
           \A m \in completeOp(op, payload, clients[c].userId,
                               getFromStore(clients[c].sessionId)).sent :
              clients[m.to].sessionId = clients[c].sessionId
      /\ \A m \in handleSessionEnd(c).sent :
           clients[m.to].sessionId = clients[c].sessionId

\* C37: every relation POST /api/block stores is between the two users of the
\* session the request names: blocker and blocked are both in session.users
\* and differ.
C37_BlockWithinSession ==
  \A sid \in SessionIds, blockedUserId \in UserIds :
     LET r == handleBlock(sid, blockedUserId)
         session == getFromStore(sid)
         ids == { session.users[i].id : i \in DOMAIN session.users }
     IN r.status = 200 =>
          \A pr \in r.blockedPairs \ blockedPairs :
             pr[1] \in ids /\ pr[2] \in ids /\ pr[1] # pr[2]

\* C38: a video_response with accepted true gives the stored request the
\* status accepted only when a request was pending, asked by a user of the
\* session, and the response comes from the other user; with accepted false
\* no request stays stored.
C38_AcceptNeedsPending ==
  \A c \in Connected :
    ~returnsEarly(c) =>
      LET session == getFromStore(clients[c].sessionId)
          ids == { session.users[i].id : i \in DOMAIN session.users }
          response(a) == [NoBody EXCEPT !.accepted = a, !.content = "answer"]
          after(a) == completeOp("video_response", response(a), clients[c].userId,
                                 session).session.videoRequested
      IN /\ (session.videoRequested.status # "accepted" /\ after("true").status = "accepted") =>
              /\ session.videoRequested.status = "pending"
              /\ session.videoRequested.requesterId \in ids
              /\ session.videoRequested.requesterId # clients[c].userId
         /\ after("false") = NoVideo

====
